---- MODULE Spec2Model ----
(***************************************************************************)
(* Power Factor Correction control (pfc.c): the ADC interrupt, the five    *)
(* state control state machine, the signal conditioning filters, the two   *)
(* control loops and the fault detector, as a state machine over the       *)
(* global PFC_T pfcParam.                                                  *)
(*                                                                         *)
(* Integers are the 16 bit values of the dsPIC build: products are 32 bit  *)
(* (__builtin_mulss), ">> n" is the arithmetic shift (floor division by    *)
(* 2^n) and a cast to int16_t or uint16_t wraps.                           *)
(***************************************************************************)
EXTENDS Integers, Sequences, FiniteSets, TLC

\* ------------------------------------------------------------ arithmetic

INT16_MAX == 2^15 - 1
INT16_MIN == -(2^15)

Abs(x) == IF x < 0 THEN -x ELSE x

\* (int16_t) x : keep the low 16 bits, read as two's complement
ToInt16(x) == ((x + 2^15) % 2^16) - 2^15

\* (uint16_t) x
ToUint16(x) == x % 2^16

\* x >> n on a signed value (arithmetic shift)
Asr(x, n) == x \div (2^n)

\* __builtin_mulss(a, b): signed 16x16 -> 32 bit product
Mulss(a, b) == a * b

\* C division truncates toward zero
TruncDiv(a, b) ==
    IF b = 0 THEN 0
    ELSE IF (a >= 0) = (b > 0) THEN Abs(a) \div Abs(b)
    ELSE -(Abs(a) \div Abs(b))

\* __builtin_divsd(num, den): signed 32/16 -> 16 bit quotient
Divsd(num, den) == ToInt16(TruncDiv(num, den))

\* __builtin_divf(num, den): Q15 fractional quotient num/den.  The quotient
\* is representable only when |num| < |den|; otherwise the hardware divide
\* overflows and the result is whatever the build produces: ovf.
DivfFits(num, den) == den # 0 /\ Abs(num) < Abs(den)

Divf(num, den, ovf) ==
    IF DivfFits(num, den) THEN TruncDiv(num * 2^15, den) ELSE ovf

\* the results an overflowing fractional divide may leave
DivfOverflow == {INT16_MIN, INT16_MAX}

Clamp(x, lo, hi) == IF x > hi THEN hi ELSE IF x < lo THEN lo ELSE x

\* F applied to the value of x: sequencing of the statements of a function
\* (x is evaluated once, then F runs on its value)
Then(x, F(_)) == CHOOSE r \in {F(v) : v \in {x}} : TRUE

\* ------------------------------------------------------------- constants
\* pfc.h is not part of the sources: the values below are representative
\* and every property is stated in terms of the names.

PFC_INIT         == 0
PFC_OFFSET_MEAS  == 1
PFC_WAIT_1CYCLE  == 2
PFC_CTRL_RUN     == 3
PFC_FAULT        == 4

PFC_FAULT_NONE   == 0
PFC_FAULT_IP_UV  == 1
PFC_FAULT_IP_OV  == 2
PFC_FAULT_OP_OV  == 4

\* soft start
PFC_OUPUT_VOLTAGE_REFERENCE == 20000
RAMP_COUNT == 15000
RAMP_RATE  == 2

\* voltage loop decimation
VOLTAGE_LOOP_EXE_RATE == 1

\* fault limits (DC bus average, and RMS^2 of the rectified input)
PFC_OUTPUT_OVER_VOLTAGE_LIMIT    == 24000
PFC_INPUT_UNDER_VOLTAGE_LIMIT_LO == 1000
PFC_INPUT_UNDER_VOLTAGE_LIMIT_HI == 1953
PFC_INPUT_OVER_VOLTAGE_LIMIT_LO  == 5000
PFC_INPUT_OVER_VOLTAGE_LIMIT_HI  == 6000

\* duty computation
PFC_LOOPTIME_TCY     == 5000
PFC_MAX_DUTY         == 4500
PFC_MIN_DUTY         == 50
KI_I_INTGRAL_OUT_MAX == 29000
PFC_MIN_CURRENTREF_PEAK_Q15 == 100
KMUL == 8000

\* Q15(0.999), Q15(0.9999)
Q15_0_999  == 32734
Q15_0_9999 == 32764

\* PI gains
KP_V == 2
KI_V == 64
KP_V_SCALE == 1
KI_V_SCALE == 1
KP_I == 2
KI_I == 64
KP_I_SCALE == 1
KI_I_SCALE == 1

\* ------------------------------------------------- signal conditioning

\* PFC_Average closing its window one call late
PFC_AverageLateWindow(pData, input) ==
    LET sum     == pData.sum + input
        samples == pData.samples + 1
    IN  IF samples > pData.sampleLimit
        THEN [pData EXCEPT !.output  = Divsd(sum, pData.sampleLimit),
                           !.status  = 1,
                           !.sum     = 0,
                           !.samples = 0]
        ELSE [pData EXCEPT !.sum = sum, !.samples = samples]

\* PFC_Average clearing status in the calls that do not complete a window
PFC_AverageOneShot(pData, input) ==
    LET sum     == pData.sum + input
        samples == pData.samples + 1
    IN  IF samples >= pData.sampleLimit
        THEN [pData EXCEPT !.output  = Divsd(sum, pData.sampleLimit),
                           !.status  = 1,
                           !.sum     = 0,
                           !.samples = 0]
        ELSE [pData EXCEPT !.sum = sum, !.samples = samples, !.status = 0]

\* PFC_Average(pData, input): moving average over sampleLimit samples
PFC_Average(pData, input) ==
    LET sum     == pData.sum + input
        samples == pData.samples + 1
    IN  IF samples >= pData.sampleLimit
        THEN [pData EXCEPT !.output  = Divsd(sum, pData.sampleLimit),
                           !.status  = 1,
                           !.sum     = 0,
                           !.samples = 0]
        ELSE [pData EXCEPT !.sum = sum, !.samples = samples]

\* PFC_SignalRectification(pSignal): |vac - offsetVac| in 16 bits
PFC_SignalRectification(pSignal) ==
    LET output == ToInt16(pSignal.vac - pSignal.offsetVac)
    IN  IF output < 0 THEN ToInt16(-output) ELSE output

\* PFC_SquaredRMSCalculate(pData, input): mean of input^2 (Q15)
PFC_SquaredRMSCalculate(pData, input) ==
    LET sum == pData.sum + ToInt16(Asr(Mulss(input, input), 15))
    IN  IF pData.samples < pData.sampleLimit
        THEN [pData EXCEPT !.sum = sum, !.samples = pData.samples + 1]
        ELSE [pData EXCEPT !.sqrOutput = Divsd(sum, pData.sampleLimit),
                           !.status    = 1,
                           !.samples   = 0,
                           !.sum       = 0]

\* ------------------------------------------------------------ PI control

\* PFC_PIController(pi, error): output = clamp((error*kp >> kpScale) +
\* integral); the integral accumulates (error*ki >> kiScale) and is itself
\* kept within the output bounds (anti-windup).
PFC_PIController(pi, error) ==
    LET proportional == Asr(Mulss(error, pi.kp), pi.kpScale)
        integral     == Clamp(pi.integralOut + Asr(Mulss(error, pi.ki), pi.kiScale),
                              pi.minOutput, pi.maxOutput)
    IN  [pi EXCEPT !.error       = error,
                   !.integralOut = integral,
                   !.output      = Clamp(proportional + integral,
                                         pi.minOutput, pi.maxOutput)]

\* ----------------------------------------------------------- fault check

\* PFC_FaultCheck with the under-voltage condition adding the over-voltage bit
PFC_FaultCheckWrongBit(pData) ==
    LET f1 == IF pData.vdcAVG.output >= PFC_OUTPUT_OVER_VOLTAGE_LIMIT
              THEN pData.faultStatus + PFC_FAULT_OP_OV ELSE pData.faultStatus
        f2 == IF pData.vacRMS.sqrOutput < PFC_INPUT_UNDER_VOLTAGE_LIMIT_LO
              THEN f1 + PFC_FAULT_IP_OV ELSE f1
        f3 == IF pData.vacRMS.sqrOutput >= PFC_INPUT_OVER_VOLTAGE_LIMIT_HI
              THEN f2 + PFC_FAULT_IP_OV ELSE f2
    IN  [pData EXCEPT !.faultStatus = ToUint16(f3)]

\* PFC_FaultCheck(pData): each condition adds its bit to faultStatus
PFC_FaultCheck(pData) ==
    LET f1 == IF pData.vdcAVG.output >= PFC_OUTPUT_OVER_VOLTAGE_LIMIT
              THEN pData.faultStatus + PFC_FAULT_OP_OV ELSE pData.faultStatus
        f2 == IF pData.vacRMS.sqrOutput < PFC_INPUT_UNDER_VOLTAGE_LIMIT_LO
              THEN f1 + PFC_FAULT_IP_UV ELSE f1
        f3 == IF pData.vacRMS.sqrOutput >= PFC_INPUT_OVER_VOLTAGE_LIMIT_HI
              THEN f2 + PFC_FAULT_IP_OV ELSE f2
    IN  [pData EXCEPT !.faultStatus = ToUint16(f3)]

\* faultStatus &= ~bit, for a bit that is a power of two
ClearBit(status, bit) ==
    IF (status \div bit) % 2 = 1 THEN status - bit ELSE status

HasBit(status, bit) == (status \div bit) % 2 = 1

\* the recovery evaluation with the under-voltage bit cleared only above
\* (not at) the recovery threshold
FaultRecoveryStrict(faultStatus, sqrOutput) ==
    LET f1 == IF sqrOutput > PFC_INPUT_UNDER_VOLTAGE_LIMIT_HI
              THEN ClearBit(faultStatus, PFC_FAULT_IP_UV) ELSE faultStatus
        f2 == IF sqrOutput < PFC_INPUT_OVER_VOLTAGE_LIMIT_LO
              THEN ClearBit(f1, PFC_FAULT_IP_OV) ELSE f1
    IN  f2

\* the recovery evaluation with the output over-voltage bit cleared along
\* with the input over-voltage bit
FaultRecoveryClearsOutputOV(faultStatus, sqrOutput) ==
    LET f1 == IF sqrOutput >= PFC_INPUT_UNDER_VOLTAGE_LIMIT_HI
              THEN ClearBit(faultStatus, PFC_FAULT_IP_UV) ELSE faultStatus
        f2 == IF sqrOutput < PFC_INPUT_OVER_VOLTAGE_LIMIT_LO
              THEN ClearBit(ClearBit(f1, PFC_FAULT_IP_OV), PFC_FAULT_OP_OV) ELSE f1
    IN  f2

\* the recovery evaluation of the PFC_FAULT case
FaultRecovery(faultStatus, sqrOutput) ==
    LET f1 == IF sqrOutput >= PFC_INPUT_UNDER_VOLTAGE_LIMIT_HI
              THEN ClearBit(faultStatus, PFC_FAULT_IP_UV) ELSE faultStatus
        f2 == IF sqrOutput < PFC_INPUT_OVER_VOLTAGE_LIMIT_LO
              THEN ClearBit(f1, PFC_FAULT_IP_OV) ELSE f1
    IN  f2

\* ------------------------------------------------- current reference

\* pData.divides lists the fractional divides the current call has
\* executed so far, each with its operands; it is an observation of the
\* run, not a member of PFC_T.
Divided(pData, site, num, den) ==
    [pData EXCEPT !.divides = Append(@, [site |-> site, num |-> num, den |-> den])]

\* the voltage loop running one call early
VoltageLoopEarly(pData) ==
    IF pData.voltLoopExeRate >= VOLTAGE_LOOP_EXE_RATE
    THEN LET error == ToInt16(pData.piVoltage.reference - pData.vdcAVG.output)
             ki    == IF error > 700 \/ error < -700 THEN Asr(KI_V, 1) ELSE KI_V
         IN  [pData EXCEPT
                !.piVoltage = PFC_PIController(
                                 [pData.piVoltage EXCEPT !.error = error, !.ki = ki],
                                 error),
                !.voltLoopExeRate = 0]
    ELSE [pData EXCEPT !.voltLoopExeRate = pData.voltLoopExeRate + 1]

\* the decimated voltage loop of PFC_CurrentRefGenerate
VoltageLoop(pData) ==
    IF pData.voltLoopExeRate > VOLTAGE_LOOP_EXE_RATE
    THEN LET error == ToInt16(pData.piVoltage.reference - pData.vdcAVG.output)
             ki    == IF error > 700 \/ error < -700 THEN Asr(KI_V, 1) ELSE KI_V
         IN  [pData EXCEPT
                !.piVoltage = PFC_PIController(
                                 [pData.piVoltage EXCEPT !.error = error, !.ki = ki],
                                 error),
                !.voltLoopExeRate = 0]
    ELSE [pData EXCEPT !.voltLoopExeRate = pData.voltLoopExeRate + 1]

\* PFC_CurrentRefGenerate(pData), built with PFC_POWER_CONTROL
PFC_CurrentRefGenerate(pData, ovf) ==
    LET d1    == VoltageLoop(pData)
        step1 == ToInt16(Asr(Mulss(d1.piVoltage.output, d1.rectifiedVac), 18))
        step2 == IF d1.vacRMS.sqrOutput > 0
                 THEN ToInt16(Divf(step1, d1.vacRMS.sqrOutput, ovf))
                 ELSE step1
        step3 == ToInt16(Asr(Mulss(step2, KMUL), 12))
        d2    == IF d1.vacRMS.sqrOutput > 0
                 THEN Divided(d1, "currentReference", step1, d1.vacRMS.sqrOutput)
                 ELSE d1
    IN  [d2 EXCEPT !.currentReference =
            IF step3 > Q15_0_999 THEN Q15_0_999
            ELSE IF step3 < 0 THEN 0 ELSE step3]

\* ------------------------------------------------------- current loop

\* the fractional divide of PFC_CurrentSampleCorrection, when it runs
SampleCorrectionDivide(pData) ==
    IF pData.boostDutyRatio > 0
    THEN Divided(pData, "averageCurrent",
                 pData.piCurrent.output, pData.boostDutyRatio)
    ELSE pData

\* PFC_CurrentSampleCorrection(pData): average current in DCM
PFC_CurrentSampleCorrection(pData, ovf) ==
    LET output == IF SampleCorrectionDivide(pData) # pData
                  THEN Divf(pData.piCurrent.output, pData.boostDutyRatio, ovf)
                  ELSE Q15_0_9999
    IN  IF output > 0
        THEN ToInt16(Asr(Mulss(pData.iL, output), 15))
        ELSE pData.iL

\* the duty clamp without the anti-windup assignment of its upper branch
DutyClampKeepsIntegral(pData) ==
    LET duty == ToUint16(Asr(Mulss(pData.piCurrent.output, PFC_LOOPTIME_TCY), 15))
    IN  IF duty > PFC_MAX_DUTY
        THEN [pData EXCEPT !.duty = PFC_MAX_DUTY]
        ELSE IF duty < PFC_MIN_DUTY
        THEN [pData EXCEPT !.duty = PFC_MIN_DUTY]
        ELSE [pData EXCEPT !.duty = duty]

\* the duty computation and clamp at the end of PFC_CurrentControlLoop
DutyClamp(pData) ==
    LET duty == ToUint16(Asr(Mulss(pData.piCurrent.output, PFC_LOOPTIME_TCY), 15))
    IN  IF duty > PFC_MAX_DUTY
        THEN [pData EXCEPT !.duty = PFC_MAX_DUTY,
                           !.piCurrent.integralOut = KI_I_INTGRAL_OUT_MAX]
        ELSE IF duty < PFC_MIN_DUTY
        THEN [pData EXCEPT !.duty = PFC_MIN_DUTY]
        ELSE [pData EXCEPT !.duty = duty]

\* PFC_CurrentControlLoop up to and including its PFC_PIController call
CurrentPI(pData, ovf) ==
    LET d1 == IF pData.iL < 0 THEN [pData EXCEPT !.iL = 1] ELSE pData
        d2 == IF d1.sampleCorrectionEnable = 1
              THEN [SampleCorrectionDivide(d1) EXCEPT
                       !.averageCurrent = PFC_CurrentSampleCorrection(d1, ovf)]
              ELSE [d1 EXCEPT !.averageCurrent = d1.iL]
    IN  [d2 EXCEPT !.piCurrent =
            PFC_PIController(d2.piCurrent,
                ToInt16(d2.currentReference - d2.averageCurrent))]

\* PFC_CurrentControlLoop(pData)
PFC_CurrentControlLoop(pData, ovf) ==
    DutyClamp(Then(CurrentPI(pData, ovf), LAMBDA d : d))

\* --------------------------------------------------- offset calibration
\* The calibration routine lives outside pfc.c: it starts with status 0
\* and, on some later call, reports ready (status 1) with an offset.  When
\* it does (ready) and what it measured (offset) are inputs of the cycle.

\* the offsets the calibration may report
CurrentOffsets == {40}

PFC_MeasureCurrentInit(pCurrent) ==
    [pCurrent EXCEPT !.status = 0, !.offset = 0]

PFC_MeasureCurrentOffset(pCurrent, ready, offset) ==
    IF pCurrent.status = 0 /\ ready
    THEN [pCurrent EXCEPT !.status = 1, !.offset = offset]
    ELSE pCurrent

\* --------------------------------------------------------- parameters

\* window lengths of the three filters
PFC_AVG_SCALER              == 0
PFC_INPUT_FREQUENCY_COUNTER == 2
PFC_RMS_SQUARE_COUNTMAX     == 3

\* PFC_T pfcParam as the C start-up code leaves it: all zero
ZeroPI ==
    [kp |-> 0, ki |-> 0, kpScale |-> 0, kiScale |-> 0, maxOutput |-> 0,
     minOutput |-> 0, integralOut |-> 0, reference |-> 0, error |-> 0,
     output |-> 0]

ZeroParam ==
    [state |-> 0, faultStatus |-> 0, sampleCorrectionEnable |-> 0,
     pfcVoltage |-> [vdc |-> 0, vac |-> 0, offsetVac |-> 0],
     pfcCurrent |-> [iL |-> 0, offset |-> 0, status |-> 0],
     vdcAVG |-> [sum |-> 0, samples |-> 0, sampleLimit |-> 0, scaler |-> 0,
                 output |-> 0, status |-> 0],
     vacAVG |-> [sum |-> 0, samples |-> 0, sampleLimit |-> 0, scaler |-> 0,
                 output |-> 0, status |-> 0],
     vacRMS |-> [sum |-> 0, samples |-> 0, sampleLimit |-> 0, sqrOutput |-> 0,
                 status |-> 0, peak |-> 0],
     rectifiedVac |-> 0,
     piVoltage |-> ZeroPI, piCurrent |-> ZeroPI,
     rampRate |-> 0, voltLoopExeRate |-> 0, boostDutyRatio |-> 0,
     currentReference |-> 0, averageCurrent |-> 0, iL |-> 0, duty |-> 0,
     divides |-> << >>]

\* PFC_ParamsInit(pfcData)
PFC_ParamsInit(pfcData) ==
    [pfcData EXCEPT
        !.vacRMS.sampleLimit = PFC_RMS_SQUARE_COUNTMAX,
        !.vdcAVG.scaler      = PFC_AVG_SCALER,
        !.vdcAVG.sampleLimit = 2^PFC_AVG_SCALER,
        !.vacAVG.sampleLimit = PFC_INPUT_FREQUENCY_COUNTER,
        !.piCurrent.kp = KP_I, !.piCurrent.ki = KI_I,
        !.piCurrent.kpScale = KP_I_SCALE, !.piCurrent.kiScale = KI_I_SCALE,
        !.piCurrent.maxOutput = INT16_MAX, !.piCurrent.minOutput = 0,
        !.piVoltage.kp = KP_V, !.piVoltage.ki = KI_V,
        !.piVoltage.kpScale = KP_V_SCALE, !.piVoltage.kiScale = KI_V_SCALE,
        !.piVoltage.maxOutput = INT16_MAX, !.piVoltage.minOutput = 0,
        !.state = PFC_INIT,
        !.faultStatus = PFC_FAULT_NONE,
        !.sampleCorrectionEnable = 0]

\* PFC_ResetParams leaving the mean square accumulator as it is
PFC_ResetParamsKeepsRMS(pData) ==
    [pData EXCEPT !.vdcAVG.sum     = 0,
                  !.vdcAVG.samples = 0,
                  !.vdcAVG.status  = 0,
                  !.vacAVG.sum     = 0,
                  !.vacAVG.samples = 0,
                  !.vacRMS.peak    = 0,
                  !.vacRMS.status  = 0,
                  !.piVoltage.integralOut = 0,
                  !.piCurrent.integralOut = 0,
                  !.duty = 0]

\* PFC_ResetParams(pData)
PFC_ResetParams(pData) ==
    [pData EXCEPT !.vdcAVG.sum     = 0,
                  !.vdcAVG.samples = 0,
                  !.vdcAVG.status  = 0,
                  !.vacAVG.sum     = 0,
                  !.vacAVG.samples = 0,
                  !.vacRMS.sum     = 0,
                  !.vacRMS.samples = 0,
                  !.vacRMS.peak    = 0,
                  !.vacRMS.status  = 0,
                  !.piVoltage.integralOut = 0,
                  !.piCurrent.integralOut = 0,
                  !.duty = 0]

\* ------------------------------------------------------- state machine
\* Each case gives the new pfcData (d) and the power stage calls it made
\* (hal), in order.

\* the soft start ramp stepping without reloading rampRate
SoftStartEveryCycle(pData) ==
    IF pData.piVoltage.reference < PFC_OUPUT_VOLTAGE_REFERENCE
    THEN IF pData.rampRate = 0
         THEN [pData EXCEPT
                 !.piVoltage.reference = ToInt16(pData.piVoltage.reference + RAMP_COUNT)]
         ELSE [pData EXCEPT !.rampRate = pData.rampRate - 1]
    ELSE [pData EXCEPT !.piVoltage.reference = PFC_OUPUT_VOLTAGE_REFERENCE]

\* the soft start ramp of the PFC_CTRL_RUN case
SoftStart(pData) ==
    IF pData.piVoltage.reference < PFC_OUPUT_VOLTAGE_REFERENCE
    THEN IF pData.rampRate = 0
         THEN [pData EXCEPT
                 !.piVoltage.reference = ToInt16(pData.piVoltage.reference + RAMP_COUNT),
                 !.rampRate = RAMP_RATE]
         ELSE [pData EXCEPT !.rampRate = pData.rampRate - 1]
    ELSE [pData EXCEPT !.piVoltage.reference = PFC_OUPUT_VOLTAGE_REFERENCE]

\* the boost duty ratio computed without the test of Vdc
BoostDutyRatioUnguarded(pData, ovf) ==
    LET num == ToInt16(pData.pfcVoltage.vdc - pData.rectifiedVac)
        den == pData.pfcVoltage.vdc
    IN  [Divided(pData, "boostDutyRatio", num, den) EXCEPT
            !.boostDutyRatio = Divf(num, den, ovf)]

\* boostDutyRatio = (Vdc - Vac)/Vdc, when Vdc > 0
BoostDutyRatio(pData, ovf) ==
    IF pData.pfcVoltage.vdc > 0
    THEN LET num == ToInt16(pData.pfcVoltage.vdc - pData.rectifiedVac)
             den == pData.pfcVoltage.vdc
         IN  [Divided(pData, "boostDutyRatio", num, den) EXCEPT
                 !.boostDutyRatio = Divf(num, den, ovf)]
    ELSE pData

\* the low reference cutoff zeroing the duty alone
LowReferenceCutoffKeepsIntegral(pData) ==
    IF pData.piVoltage.output < PFC_MIN_CURRENTREF_PEAK_Q15
    THEN [pData EXCEPT !.duty = 0]
    ELSE pData

\* the low reference cutoff at the end of the no-fault run cycle
LowReferenceCutoff(pData) ==
    IF pData.piVoltage.output < PFC_MIN_CURRENTREF_PEAK_Q15
    THEN [pData EXCEPT !.duty = 0, !.piCurrent.integralOut = 0]
    ELSE pData

CaseInit(pData) ==
    LET d1 == PFC_ResetParams(pData)
        d2 == [d1 EXCEPT !.pfcCurrent = PFC_MeasureCurrentInit(d1.pfcCurrent)]
    IN  [d |-> [d2 EXCEPT !.state = PFC_OFFSET_MEAS], hal |-> <<"Disable">>]

CaseOffsetMeas(pData, ready, offset) ==
    LET d1 == [pData EXCEPT !.pfcCurrent =
                  PFC_MeasureCurrentOffset(pData.pfcCurrent, ready, offset)]
    IN  IF d1.pfcCurrent.status = 1 /\ d1.vacAVG.status = 1
        THEN [d |-> [d1 EXCEPT !.piVoltage.reference = d1.vdcAVG.output,
                               !.pfcVoltage.offsetVac = d1.vacAVG.output,
                               !.state = PFC_WAIT_1CYCLE],
              hal |-> << >>]
        ELSE [d |-> d1, hal |-> << >>]

\* PFC_WAIT_1CYCLE enabling the power stage before the RMS window is complete
CaseWait1CycleEarlyEnable(pData) ==
    IF pData.vacRMS.status = 1
    THEN [d |-> [pData EXCEPT !.state = PFC_CTRL_RUN], hal |-> <<"Enable">>]
    ELSE [d |-> pData, hal |-> <<"Enable">>]

CaseWait1Cycle(pData) ==
    IF pData.vacRMS.status = 1
    THEN [d |-> [pData EXCEPT !.state = PFC_CTRL_RUN], hal |-> <<"Enable">>]
    ELSE [d |-> pData, hal |-> << >>]

\* the no-fault branch of the PFC_CTRL_RUN case
RunControl(pData, ovf) ==
    Then(Then(Then(Then(SoftStart(pData),
        LAMBDA d : PFC_CurrentRefGenerate(d, ovf)),
        LAMBDA d : BoostDutyRatio(d, ovf)),
        LAMBDA d : PFC_CurrentControlLoop(d, ovf)),
        LowReferenceCutoff)

\* the PFC_CTRL_RUN case after the fault check
RunOrFault(pData, ovf) ==
    IF pData.faultStatus = PFC_FAULT_NONE
    THEN [d |-> RunControl(pData, ovf), hal |-> << >>]
    ELSE [d |-> [pData EXCEPT !.state = PFC_FAULT], hal |-> << >>]

\* built with ENABLE_PFC_CURRENT_OFFSET_CORRECTION
CaseCtrlRun(pData, ovf) ==
    Then(PFC_FaultCheck(
             [pData EXCEPT !.iL = ToInt16(pData.pfcCurrent.iL - pData.pfcCurrent.offset)]),
         LAMBDA d : RunOrFault(d, ovf))

\* PFC_FAULT without "duty = 0"
CaseFaultKeepsDuty(pData) ==
    LET d1 == [pData EXCEPT
                  !.faultStatus = FaultRecovery(pData.faultStatus,
                                                pData.vacRMS.sqrOutput)]
    IN  IF d1.faultStatus = PFC_FAULT_NONE
        THEN [d |-> [d1 EXCEPT !.piVoltage.integralOut = 0,
                               !.piCurrent.integralOut = 0,
                               !.piVoltage.reference   = d1.vdcAVG.output,
                               !.state = PFC_CTRL_RUN],
              hal |-> <<"Disable", "Enable">>]
        ELSE [d |-> d1, hal |-> <<"Disable">>]

\* PFC_FAULT recovering without "piVoltage.integralOut = 0"
CaseFaultKeepsIntegral(pData) ==
    LET d1 == [pData EXCEPT !.duty = 0,
                  !.faultStatus = FaultRecovery(pData.faultStatus,
                                                pData.vacRMS.sqrOutput)]
    IN  IF d1.faultStatus = PFC_FAULT_NONE
        THEN [d |-> [d1 EXCEPT !.piCurrent.integralOut = 0,
                               !.piVoltage.reference   = d1.vdcAVG.output,
                               !.state = PFC_CTRL_RUN],
              hal |-> <<"Disable", "Enable">>]
        ELSE [d |-> d1, hal |-> <<"Disable">>]

\* PFC_FAULT returning to PFC_CTRL_RUN as soon as the input faults clear
CaseFaultIgnoresOutputOV(pData) ==
    LET d1 == [pData EXCEPT !.duty = 0,
                  !.faultStatus = FaultRecovery(pData.faultStatus,
                                                pData.vacRMS.sqrOutput)]
    IN  IF ClearBit(d1.faultStatus, PFC_FAULT_OP_OV) = PFC_FAULT_NONE
        THEN [d |-> [d1 EXCEPT !.piVoltage.integralOut = 0,
                               !.piCurrent.integralOut = 0,
                               !.piVoltage.reference   = d1.vdcAVG.output,
                               !.state = PFC_CTRL_RUN],
              hal |-> <<"Disable", "Enable">>]
        ELSE [d |-> d1, hal |-> <<"Disable">>]

\* PFC_FAULT recovering into PFC_INIT
CaseFaultRestarts(pData) ==
    LET d1 == [pData EXCEPT !.duty = 0,
                  !.faultStatus = FaultRecovery(pData.faultStatus,
                                                pData.vacRMS.sqrOutput)]
    IN  IF d1.faultStatus = PFC_FAULT_NONE
        THEN [d |-> [d1 EXCEPT !.piVoltage.integralOut = 0,
                               !.piCurrent.integralOut = 0,
                               !.piVoltage.reference   = d1.vdcAVG.output,
                               !.state = PFC_INIT],
              hal |-> <<"Disable", "Enable">>]
        ELSE [d |-> d1, hal |-> <<"Disable">>]

CaseFault(pData) ==
    LET d1 == [pData EXCEPT !.duty = 0,
                  !.faultStatus = FaultRecovery(pData.faultStatus,
                                                pData.vacRMS.sqrOutput)]
    IN  IF d1.faultStatus = PFC_FAULT_NONE
        THEN [d |-> [d1 EXCEPT !.piVoltage.integralOut = 0,
                               !.piCurrent.integralOut = 0,
                               !.piVoltage.reference   = d1.vdcAVG.output,
                               !.state = PFC_CTRL_RUN],
              hal |-> <<"Disable", "Enable">>]
        ELSE [d |-> d1, hal |-> <<"Disable">>]

\* the signal conditioning that runs in every cycle, before the switch
AverageVdc(pData) ==
    [pData EXCEPT !.vdcAVG = PFC_Average(@, pData.pfcVoltage.vdc)]

AverageVac(pData) ==
    LET avg == PFC_Average(pData.vacAVG, pData.pfcVoltage.vac)
    IN  [pData EXCEPT !.vacAVG = avg, !.pfcVoltage.offsetVac = avg.output]

Rectify(pData) ==
    [pData EXCEPT !.rectifiedVac = PFC_SignalRectification(pData.pfcVoltage)]

SquaredRMS(pData) ==
    [pData EXCEPT !.vacRMS = PFC_SquaredRMSCalculate(@, pData.rectifiedVac)]

SignalConditioning(pData) ==
    Then(Then(Then(AverageVdc(pData), AverageVac), Rectify), SquaredRMS)

\* the switch on the state the cycle started in
Switch(pfcState, d1, ready, offset, ovf) ==
    CASE pfcState = PFC_INIT        -> CaseInit(d1)
      [] pfcState = PFC_OFFSET_MEAS -> CaseOffsetMeas(d1, ready, offset)
      [] pfcState = PFC_WAIT_1CYCLE -> CaseWait1Cycle(d1)
      [] pfcState = PFC_CTRL_RUN    -> CaseCtrlRun(d1, ovf)
      [] pfcState = PFC_FAULT       -> CaseFault(d1)
      [] OTHER                      -> [d |-> d1, hal |-> << >>]

\* PFC_StateMachine(pfcData)
PFC_StateMachine(pfcData, ready, offset, ovf) ==
    Then(SignalConditioning(pfcData),
         LAMBDA d1 : Switch(pfcData.state, d1, ready, offset, ovf))

\* ------------------------------------------------------------- the system

VARIABLES
    pfcParam,       \* the global PFC_T
    PFC_PWM_PDC,    \* the PWM duty register
    pwmOutputs,     \* TRUE while the power stage outputs are enabled
    halCalls,       \* the power stage calls of the last cycle, in order
    cycleStart,     \* pfcParam.state when the last cycle started (-1: none yet)
    startupEnables, \* HAL_PFCPWMEnableOutputs calls made by the cycles that
                    \* started before PFC_CTRL_RUN was first reached
    sinceIncrement, \* whole cycles since the cycle that last stepped the soft
                    \* start reference (counted up to RAMP_RATE + 1, where it
                    \* also starts)
    lastCall,       \* the function that ran last ("" before the first)
    rmsWindow,      \* samples the mean square accumulator has taken since
                    \* PFC_ResetParams (counted up to sampleLimit + 1)
    callCount       \* calls made so far, in the specifications that count them

vars == <<pfcParam, PFC_PWM_PDC, pwmOutputs, halCalls, cycleStart,
          startupEnables, sinceIncrement, lastCall, rmsWindow, callCount>>

NoCalls == [avg |-> 0, rms |-> 0, cycles |-> 0]

\* the ADC buffer values a cycle may read
VdcSamples == {0, 26000}
VacSamples == {4000, 20000}
ILSamples  == {3000}

StartupStates == {PFC_INIT, PFC_OFFSET_MEAS, PFC_WAIT_1CYCLE}

Count(seq, x) == Cardinality({i \in DOMAIN seq : seq[i] = x})

\* the state of the power stage outputs after the calls of a cycle
OutputsAfter(was, calls) ==
    IF calls = << >> THEN was ELSE calls[Len(calls)] = "Enable"

\* PFC_ServiceInit(): PFC_ParamsInit on the zeroed global
Init ==
    /\ pfcParam    = PFC_ParamsInit(ZeroParam)
    /\ PFC_PWM_PDC = 0
    /\ pwmOutputs  = FALSE
    /\ halCalls    = << >>
    /\ cycleStart  = -1
    /\ startupEnables = 0
    /\ sinceIncrement = RAMP_RATE + 1
    /\ lastCall    = ""
    /\ rmsWindow   = 0
    /\ callCount   = NoCalls

\* TRUE when the cycle from pfcData to d stepped the soft start reference
RampStepped(pfcData, d) ==
    /\ pfcData.state = PFC_CTRL_RUN
    /\ d.state = PFC_CTRL_RUN
    /\ pfcData.piVoltage.reference < PFC_OUPUT_VOLTAGE_REFERENCE
    /\ d.piVoltage.reference # pfcData.piVoltage.reference

\* PFC_ADCInterrupt(): one control cycle
PFC_ADCInterrupt(vdc, vac, iL, ready, offset, ovf) ==
    LET d0 == [pfcParam EXCEPT !.pfcVoltage.vdc = vdc,
                               !.pfcVoltage.vac = vac,
                               !.pfcCurrent.iL  = iL,
                               !.divides = << >>]
    IN  \E r \in {PFC_StateMachine(d0, ready, offset, ovf)} :
        /\ pfcParam'    = r.d
        /\ PFC_PWM_PDC' = r.d.duty
        /\ pwmOutputs'  = OutputsAfter(pwmOutputs, r.hal)
        /\ halCalls'    = r.hal
        /\ cycleStart'  = pfcParam.state
        /\ startupEnables' = IF pfcParam.state \in StartupStates
                             THEN startupEnables + Count(r.hal, "Enable")
                             ELSE startupEnables
        /\ sinceIncrement' = IF RampStepped(pfcParam, r.d) THEN 0
                             ELSE IF sinceIncrement > RAMP_RATE THEN sinceIncrement
                             ELSE sinceIncrement + 1
        /\ lastCall' = "PFC_ADCInterrupt"
        /\ rmsWindow' = IF pfcParam.state = PFC_INIT THEN 0
                        ELSE IF rmsWindow > pfcParam.vacRMS.sampleLimit
                        THEN rmsWindow
                        ELSE rmsWindow + 1

\* The calibration result is read only in PFC_OFFSET_MEAS and a fractional
\* divide runs only in PFC_CTRL_RUN: elsewhere one value stands for all.
ReadyInputs  == IF pfcParam.state = PFC_OFFSET_MEAS THEN BOOLEAN ELSE {FALSE}
OffsetInputs == IF pfcParam.state = PFC_OFFSET_MEAS THEN CurrentOffsets ELSE {0}
OvfInputs    == IF pfcParam.state = PFC_CTRL_RUN THEN DivfOverflow ELSE {0}

Next ==
    \E vdc \in VdcSamples, vac \in VacSamples, iL \in ILSamples,
       ready \in ReadyInputs, offset \in OffsetInputs, ovf \in OvfInputs :
        /\ PFC_ADCInterrupt(vdc, vac, iL, ready, offset, ovf)
        /\ UNCHANGED callCount

Spec == Init /\ [][Next]_vars

\* ------------------------------------------------------------- start-up
\* The cycles up to the first arrival in PFC_CTRL_RUN.  The ADC interrupt
\* is periodic (weak fairness of the cycle) and the calibration eventually
\* reports ready (weak fairness of a cycle in which it does).

StartupCycle == pfcParam.state \in StartupStates /\ Next

CalibrationReports ==
    /\ pfcParam.state = PFC_OFFSET_MEAS
    /\ \E vdc \in VdcSamples, vac \in VacSamples, iL \in ILSamples,
          offset \in CurrentOffsets :
           /\ PFC_ADCInterrupt(vdc, vac, iL, TRUE, offset, 0)
           /\ UNCHANGED callCount

StartupSpec ==
    /\ Init
    /\ [][StartupCycle]_vars
    /\ WF_vars(StartupCycle)
    /\ WF_vars(CalibrationReports)

\* ------------------------------------------------- the current loop alone
\* PFC_CurrentControlLoop applied to a parameter block whose run-time
\* fields are drawn from the sets below (sampleCorrectionEnable is a field
\* of the global block, which the application may set).

LoopCurrents     == {-5, 0, 100, 3000}
LoopReferences   == {0, 110, 400, 3000, 30000}
LoopIntegrals    == {0, 15000, KI_I_INTGRAL_OUT_MAX}
LoopBoostRatios  == {0, 16000}
LoopVoltageOutputs == {0, 99, 100, 20000}

LoopInit ==
    /\ \E iL \in LoopCurrents, ref \in LoopReferences, int \in LoopIntegrals,
          en \in {0, 1}, ratio \in LoopBoostRatios, vout \in LoopVoltageOutputs :
           pfcParam = [PFC_ParamsInit(ZeroParam) EXCEPT
                          !.state = PFC_CTRL_RUN,
                          !.piVoltage.output = vout,
                          !.iL = iL,
                          !.currentReference = ref,
                          !.piCurrent.integralOut = int,
                          !.sampleCorrectionEnable = en,
                          !.boostDutyRatio = ratio]
    /\ PFC_PWM_PDC = 0
    /\ pwmOutputs  = TRUE
    /\ halCalls    = << >>
    /\ cycleStart  = PFC_CTRL_RUN
    /\ startupEnables = 1
    /\ sinceIncrement = RAMP_RATE + 1
    /\ lastCall    = ""
    /\ rmsWindow   = 0
    /\ callCount   = NoCalls

CurrentControlLoopCall ==
    \E ovf \in DivfOverflow :
        /\ pfcParam' = PFC_CurrentControlLoop(
                           [pfcParam EXCEPT !.divides = << >>], ovf)
        /\ lastCall' = "PFC_CurrentControlLoop"
        /\ UNCHANGED <<PFC_PWM_PDC, pwmOutputs, halCalls, cycleStart,
                       startupEnables, sinceIncrement, rmsWindow, callCount>>

LoopSpec == LoopInit /\ [][CurrentControlLoopCall]_vars

\* the end of the no-fault run cycle: PFC_CurrentControlLoop and the low
\* reference cutoff that follows it
ControlAndCutoff ==
    \E ovf \in DivfOverflow :
        /\ pfcParam' = LowReferenceCutoff(PFC_CurrentControlLoop(
                           [pfcParam EXCEPT !.divides = << >>], ovf))
        /\ lastCall' = "LowReferenceCutoff"
        /\ UNCHANGED <<PFC_PWM_PDC, pwmOutputs, halCalls, cycleStart,
                       startupEnables, sinceIncrement, rmsWindow, callCount>>

CutoffSpec == LoopInit /\ [][ControlAndCutoff]_vars

\* --------------------------------------- start-up for any window lengths
\* The start-up cycles with the window lengths of the DC bus average and
\* of the AC input average drawn from the sets below (they are pfc.h
\* macros).

SeedScalers == {0, 1, 2}
SeedWindows == {1, 2, 3}

SeedInit ==
    /\ \E scaler \in SeedScalers, n \in SeedWindows :
           pfcParam = [PFC_ParamsInit(ZeroParam) EXCEPT
                          !.vdcAVG.scaler      = scaler,
                          !.vdcAVG.sampleLimit = 2^scaler,
                          !.vacAVG.sampleLimit = n]
    /\ PFC_PWM_PDC = 0
    /\ pwmOutputs  = FALSE
    /\ halCalls    = << >>
    /\ cycleStart  = -1
    /\ startupEnables = 0
    /\ sinceIncrement = RAMP_RATE + 1
    /\ lastCall    = ""
    /\ rmsWindow   = 0
    /\ callCount   = NoCalls

SeedSpec == SeedInit /\ [][StartupCycle]_vars

\* ------------------------------------------- the first cycles, wider Vdc
\* The interrupt from power-up with a DC bus sample between zero and the
\* over-voltage limit as well, for the cycles counted in WideCycles.

WideVdcSamples == {0, 18000, 26000}
WideCycles     == 0 .. 10

WideCycle ==
    /\ callCount.cycles \in WideCycles
    /\ \E vdc \in WideVdcSamples, vac \in VacSamples, iL \in ILSamples,
          ready \in ReadyInputs, offset \in OffsetInputs, ovf \in OvfInputs :
           PFC_ADCInterrupt(vdc, vac, iL, ready, offset, ovf)
    /\ callCount' = [callCount EXCEPT !.cycles = @ + 1]

WideSpec == Init /\ [][WideCycle]_vars

\* ------------------------------------- the first cycles, full-scale Vac
\* The interrupt from power-up with AC input samples at the ends of the
\* int16_t range, for the cycles counted in ExtremeCycles.

ExtremeVacSamples == {-32768, -1, 0, 32767}
ExtremeCycles     == 0 .. 4

ExtremeCycle ==
    /\ callCount.cycles \in ExtremeCycles
    /\ \E vdc \in VdcSamples, vac \in ExtremeVacSamples, iL \in ILSamples,
          ready \in ReadyInputs, offset \in OffsetInputs, ovf \in OvfInputs :
           PFC_ADCInterrupt(vdc, vac, iL, ready, offset, ovf)
    /\ callCount' = [callCount EXCEPT !.cycles = @ + 1]

ExtremeSpec == Init /\ [][ExtremeCycle]_vars

\* ------------------------------------------------- every divide of pfc.c
\* The cycles of WideSpec together with the direct calls of LoopSpec, which
\* reach the divide of PFC_CurrentSampleCorrection (PFC_ParamsInit leaves
\* sampleCorrectionEnable at 0, so the interrupt alone never calls it).
\* The two start from different states and never meet: the interrupt runs
\* from power-up, the direct calls on the parameter blocks of LoopInit.

DivideInit == Init \/ LoopInit

DivideNext ==
    \/ (cycleStart = -1 \/ lastCall = "PFC_ADCInterrupt") /\ WideCycle
    \/ (cycleStart = PFC_CTRL_RUN /\ lastCall # "PFC_ADCInterrupt")
          /\ CurrentControlLoopCall

DivideSpec == DivideInit /\ [][DivideNext]_vars

\* ----------------------------------------------------- the filters alone
\* PFC_Average on vacAVG and PFC_SquaredRMSCalculate on vacRMS, each fed a
\* constant input (the sample held in pfcVoltage.vac, respectively
\* rectifiedVac), for window lengths drawn from FilterWindows, starting
\* from sum = 0 and samples = 0.

FilterWindows  == {1, 2, 3}
FilterSamples  == {-32768, -7, 0, 5, 32767}
FilterSquares  == {0, 3, 16000, 32767}
FilterOutputs  == {0, 77}

FilterInit ==
    /\ \E n \in FilterWindows, m \in FilterWindows, v \in FilterSamples,
          a \in FilterSquares, out \in FilterOutputs :
           pfcParam = [PFC_ParamsInit(ZeroParam) EXCEPT
                          !.vacAVG.sampleLimit = n,
                          !.vacAVG.output = out,
                          !.pfcVoltage.vac = v,
                          !.vacRMS.sampleLimit = m,
                          !.vacRMS.sqrOutput = out,
                          !.rectifiedVac = a]
    /\ PFC_PWM_PDC = 0
    /\ pwmOutputs  = FALSE
    /\ halCalls    = << >>
    /\ cycleStart  = -1
    /\ startupEnables = 0
    /\ sinceIncrement = RAMP_RATE + 1
    /\ lastCall    = ""
    /\ rmsWindow   = 0
    /\ callCount   = NoCalls

AverageCall ==
    /\ callCount.avg < 2 * pfcParam.vacAVG.sampleLimit + 1
    /\ pfcParam' = [pfcParam EXCEPT
                       !.vacAVG = PFC_Average(@, pfcParam.pfcVoltage.vac)]
    /\ callCount' = [callCount EXCEPT !.avg = @ + 1]
    /\ lastCall' = "PFC_Average"
    /\ UNCHANGED <<PFC_PWM_PDC, pwmOutputs, halCalls, cycleStart,
                   startupEnables, sinceIncrement, rmsWindow>>

SquaredRMSCall ==
    /\ callCount.rms < 2 * pfcParam.vacRMS.sampleLimit + 3
    /\ pfcParam' = [pfcParam EXCEPT
                       !.vacRMS = PFC_SquaredRMSCalculate(@, pfcParam.rectifiedVac)]
    /\ callCount' = [callCount EXCEPT !.rms = @ + 1]
    /\ lastCall' = "PFC_SquaredRMSCalculate"
    /\ UNCHANGED <<PFC_PWM_PDC, pwmOutputs, halCalls, cycleStart,
                   startupEnables, sinceIncrement, rmsWindow>>

FilterSpec == FilterInit /\ [][AverageCall \/ SquaredRMSCall]_vars

\* ---------------------------------------------------------------- claims

\* C1: from PFC_INIT, with the calibration eventually ready, the machine
\* reaches PFC_CTRL_RUN through INIT, OFFSET_MEAS, WAIT_1CYCLE in that
\* order; the power stage enable is called exactly once during start-up,
\* in the cycle that moves WAIT_1CYCLE to CTRL_RUN, and no cycle that ends
\* in INIT, OFFSET_MEAS or WAIT_1CYCLE calls it.
StartupReachesRun ==
    /\ <>(pfcParam.state = PFC_CTRL_RUN)
    /\ [][pfcParam'.state # pfcParam.state =>
             <<pfcParam.state, pfcParam'.state>> \in
                 {<<PFC_INIT, PFC_OFFSET_MEAS>>,
                  <<PFC_OFFSET_MEAS, PFC_WAIT_1CYCLE>>,
                  <<PFC_WAIT_1CYCLE, PFC_CTRL_RUN>>}]_vars
    /\ [](pfcParam.state \in StartupStates =>
             /\ startupEnables = 0
             /\ Count(halCalls, "Enable") = 0
             /\ ~pwmOutputs)
    /\ [](pfcParam.state = PFC_CTRL_RUN =>
             /\ cycleStart = PFC_WAIT_1CYCLE
             /\ halCalls = <<"Enable">>
             /\ startupEnables = 1
             /\ pwmOutputs)

StartupReachesRunWitness ==
    /\ pfcParam.state = PFC_CTRL_RUN
    /\ cycleStart = PFC_WAIT_1CYCLE
    /\ startupEnables = 1
    /\ pfcParam.pfcCurrent.status = 1

OutputOverVoltage(p) == p.vdcAVG.output >= PFC_OUTPUT_OVER_VOLTAGE_LIMIT
InputUnderVoltage(p) == p.vacRMS.sqrOutput < PFC_INPUT_UNDER_VOLTAGE_LIMIT_LO
InputOverVoltage(p)  == p.vacRMS.sqrOutput >= PFC_INPUT_OVER_VOLTAGE_LIMIT_HI

\* C3: a cycle that starts in PFC_CTRL_RUN ends in PFC_FAULT exactly when
\* one of the three conditions holds, each condition sets exactly its own
\* bit, and with none faultStatus stays PFC_FAULT_NONE and the state stays
\* PFC_CTRL_RUN.
FaultIffCondition ==
    cycleStart = PFC_CTRL_RUN =>
        /\ (pfcParam.state = PFC_FAULT) <=>
               (\/ OutputOverVoltage(pfcParam)
                \/ InputUnderVoltage(pfcParam)
                \/ InputOverVoltage(pfcParam))
        /\ pfcParam.state \in {PFC_CTRL_RUN, PFC_FAULT}
        /\ pfcParam.faultStatus =
               (IF OutputOverVoltage(pfcParam) THEN PFC_FAULT_OP_OV ELSE 0)
             + (IF InputUnderVoltage(pfcParam) THEN PFC_FAULT_IP_UV ELSE 0)
             + (IF InputOverVoltage(pfcParam)  THEN PFC_FAULT_IP_OV ELSE 0)
        /\ (pfcParam.state = PFC_CTRL_RUN) <=>
               (pfcParam.faultStatus = PFC_FAULT_NONE)

FaultIffConditionWitness ==
    /\ cycleStart = PFC_CTRL_RUN
    /\ pfcParam.state = PFC_FAULT
    /\ pfcParam.faultStatus = PFC_FAULT_OP_OV + PFC_FAULT_IP_OV

\* C4: PFC_FAULT moves to PFC_CTRL_RUN exactly when faultStatus is clear
\* after the recovery evaluation of the cycle; that cycle leaves both
\* integrals 0, the voltage reference equal to the DC bus average and the
\* power stage enabled; every other PFC_FAULT cycle leaves the power stage
\* disabled and the integrals and the reference as they were.
FaultRecoveryTransition ==
    [][pfcParam.state = PFC_FAULT =>
          /\ pfcParam'.state \in {PFC_FAULT, PFC_CTRL_RUN}
          /\ (pfcParam'.state = PFC_CTRL_RUN) <=>
                 (pfcParam'.faultStatus = PFC_FAULT_NONE)
          /\ pfcParam'.state = PFC_CTRL_RUN =>
                 /\ pfcParam'.piVoltage.integralOut = 0
                 /\ pfcParam'.piCurrent.integralOut = 0
                 /\ pfcParam'.piVoltage.reference = pfcParam'.vdcAVG.output
                 /\ halCalls'[Len(halCalls')] = "Enable"
                 /\ pwmOutputs'
          /\ pfcParam'.state = PFC_FAULT =>
                 /\ pfcParam'.piVoltage.integralOut = pfcParam.piVoltage.integralOut
                 /\ pfcParam'.piCurrent.integralOut = pfcParam.piCurrent.integralOut
                 /\ pfcParam'.piVoltage.reference = pfcParam.piVoltage.reference
                 /\ halCalls' = <<"Disable">>
                 /\ ~pwmOutputs']_vars

\* a recovery that had an integral and a reference to reset
FaultRecoveryTransitionWitness ==
    /\ cycleStart = PFC_FAULT
    /\ pfcParam.state = PFC_CTRL_RUN
    /\ pwmOutputs
    /\ pfcParam.piVoltage.integralOut = 0
    /\ pfcParam.piVoltage.output > 0
    /\ pfcParam.piCurrent.integralOut = 0
    /\ pfcParam.piVoltage.reference = pfcParam.vdcAVG.output
    /\ pfcParam.vdcAVG.output > 0

\* C5: the output over-voltage fault is latched: once PFC_FAULT_OP_OV is
\* set no cycle clears it, the state is PFC_FAULT after every later cycle
\* and the power stage is never enabled again.
OutputOverVoltageLatched ==
    [][HasBit(pfcParam.faultStatus, PFC_FAULT_OP_OV) =>
          /\ HasBit(pfcParam'.faultStatus, PFC_FAULT_OP_OV)
          /\ pfcParam'.state = PFC_FAULT
          /\ Count(halCalls', "Enable") = 0
          /\ ~pwmOutputs']_vars

\* latched although the DC bus average and the input are back in range
OutputOverVoltageLatchedWitness ==
    /\ cycleStart = PFC_FAULT
    /\ pfcParam.state = PFC_FAULT
    /\ pfcParam.faultStatus = PFC_FAULT_OP_OV
    /\ ~OutputOverVoltage(pfcParam)
    /\ pfcParam.vacRMS.sqrOutput >= PFC_INPUT_UNDER_VOLTAGE_LIMIT_HI
    /\ pfcParam.vacRMS.sqrOutput < PFC_INPUT_OVER_VOLTAGE_LIMIT_LO

\* the bits of faultStatus that a cycle cleared, set, and kept
Cleared(bit) == HasBit(pfcParam.faultStatus, bit) /\ ~HasBit(pfcParam'.faultStatus, bit)
Raised(bit)  == ~HasBit(pfcParam.faultStatus, bit) /\ HasBit(pfcParam'.faultStatus, bit)

FaultBits == {PFC_FAULT_IP_UV, PFC_FAULT_IP_OV, PFC_FAULT_OP_OV}

\* C6 as claimed: fault bits are cleared only in cycles that start in
\* PFC_FAULT; the under-voltage bit is cleared exactly when RMS^2 is
\* greater than the recovery-high threshold, the over-voltage bit exactly
\* when RMS^2 is below the recovery-low threshold, and every other bit is
\* left as it was.
ClearedOnlyAboveThreshold ==
    [][/\ pfcParam.state # PFC_FAULT => \A b \in FaultBits : ~Cleared(b)
       /\ pfcParam.state = PFC_FAULT =>
             /\ HasBit(pfcParam.faultStatus, PFC_FAULT_IP_UV) =>
                   (Cleared(PFC_FAULT_IP_UV) <=>
                      pfcParam'.vacRMS.sqrOutput > PFC_INPUT_UNDER_VOLTAGE_LIMIT_HI)
             /\ HasBit(pfcParam.faultStatus, PFC_FAULT_IP_OV) =>
                   (Cleared(PFC_FAULT_IP_OV) <=>
                      pfcParam'.vacRMS.sqrOutput < PFC_INPUT_OVER_VOLTAGE_LIMIT_LO)
             /\ ~Cleared(PFC_FAULT_OP_OV)
             /\ \A b \in FaultBits : ~Raised(b)]_vars

\* C6 as amended: the under-voltage bit is cleared exactly when RMS^2 is
\* greater than or equal to the recovery-high threshold; the rest as
\* claimed.
ClearedByOwnHysteresis ==
    [][/\ pfcParam.state # PFC_FAULT => \A b \in FaultBits : ~Cleared(b)
       /\ pfcParam.state = PFC_FAULT =>
             /\ HasBit(pfcParam.faultStatus, PFC_FAULT_IP_UV) =>
                   (Cleared(PFC_FAULT_IP_UV) <=>
                      pfcParam'.vacRMS.sqrOutput >= PFC_INPUT_UNDER_VOLTAGE_LIMIT_HI)
             /\ HasBit(pfcParam.faultStatus, PFC_FAULT_IP_OV) =>
                   (Cleared(PFC_FAULT_IP_OV) <=>
                      pfcParam'.vacRMS.sqrOutput < PFC_INPUT_OVER_VOLTAGE_LIMIT_LO)
             /\ ~Cleared(PFC_FAULT_OP_OV)
             /\ \A b \in FaultBits : ~Raised(b)]_vars

\* the under-voltage fault recovered with RMS^2 exactly at the threshold
ClearedByOwnHysteresisWitness ==
    /\ cycleStart = PFC_FAULT
    /\ pfcParam.state = PFC_CTRL_RUN
    /\ pfcParam.vacRMS.sqrOutput = PFC_INPUT_UNDER_VOLTAGE_LIMIT_HI

\* the values faultStatus has when each fault bit is counted at most once
RECURSIVE SumOf(_)
SumOf(S) == IF S = {} THEN 0
            ELSE LET b == CHOOSE x \in S : TRUE IN b + SumOf(S \ {b})

FaultCombinations == {SumOf(S) : S \in SUBSET FaultBits}

\* C7: faultStatus is always a combination of the three fault bits, each
\* counted at most once, and PFC_FaultCheck is entered (the state is
\* PFC_CTRL_RUN) only with faultStatus PFC_FAULT_NONE.
FaultBitsNeverDoubleCounted ==
    /\ pfcParam.faultStatus \in FaultCombinations
    /\ Cardinality(FaultCombinations) = 2^Cardinality(FaultBits)
    /\ pfcParam.state = PFC_CTRL_RUN => pfcParam.faultStatus = PFC_FAULT_NONE
    /\ pfcParam.state \in StartupStates => pfcParam.faultStatus = PFC_FAULT_NONE
    /\ pfcParam.state = PFC_FAULT => pfcParam.faultStatus # PFC_FAULT_NONE

\* back in PFC_CTRL_RUN after a fault: the next PFC_FaultCheck may re-trigger
FaultBitsNeverDoubleCountedWitness ==
    /\ cycleStart = PFC_FAULT
    /\ pfcParam.state = PFC_CTRL_RUN
    /\ pfcParam.faultStatus = PFC_FAULT_NONE
    /\ InputUnderVoltage(pfcParam) \/ pfcParam.vacRMS.sqrOutput < PFC_INPUT_OVER_VOLTAGE_LIMIT_LO

\* C8: in a cycle that starts and ends in PFC_CTRL_RUN with the reference
\* below the target, the reference stays or grows by exactly RAMP_COUNT,
\* and it grows only when at least RAMP_RATE whole cycles have passed since
\* the previous increment.
SoftStartSteps ==
    [][(/\ pfcParam.state = PFC_CTRL_RUN
        /\ pfcParam'.state = PFC_CTRL_RUN
        /\ pfcParam.piVoltage.reference < PFC_OUPUT_VOLTAGE_REFERENCE) =>
          \/ pfcParam'.piVoltage.reference = pfcParam.piVoltage.reference
          \/ /\ pfcParam'.piVoltage.reference =
                    pfcParam.piVoltage.reference + RAMP_COUNT
             /\ sinceIncrement >= RAMP_RATE]_vars

\* the second increment of a ramp has just been made
SoftStartStepsWitness ==
    /\ cycleStart = PFC_CTRL_RUN
    /\ pfcParam.state = PFC_CTRL_RUN
    /\ sinceIncrement = 0
    /\ pfcParam.rampRate = RAMP_RATE
    /\ pfcParam.piVoltage.reference = 2 * RAMP_COUNT

\* C9: after a cycle that starts and ends in PFC_CTRL_RUN the reference
\* the cycle handed to PFC_CurrentRefGenerate (nothing after the soft
\* start changes it) is not greater than PFC_OUPUT_VOLTAGE_REFERENCE.
ReferenceNeverAboveTarget ==
    (cycleStart = PFC_CTRL_RUN /\ pfcParam.state = PFC_CTRL_RUN) =>
        pfcParam.piVoltage.reference <= PFC_OUPUT_VOLTAGE_REFERENCE

\* C10: after PFC_CurrentControlLoop duty is within [PFC_MIN_DUTY,
\* PFC_MAX_DUTY]; when the scaled PI output exceeds PFC_MAX_DUTY, duty is
\* PFC_MAX_DUTY and piCurrent.integralOut is KI_I_INTGRAL_OUT_MAX; in the
\* other two branches the integral is what PFC_PIController produced.
CurrentLoopDutyClamped ==
    [][lastCall' = "PFC_CurrentControlLoop" =>
         \A ovf \in DivfOverflow :
            pfcParam' = PFC_CurrentControlLoop(pfcParam, ovf) =>
               LET pi     == CurrentPI(pfcParam, ovf).piCurrent
                   scaled == ToUint16(Asr(Mulss(pi.output, PFC_LOOPTIME_TCY), 15))
               IN  /\ pfcParam'.duty \in PFC_MIN_DUTY..PFC_MAX_DUTY
                   /\ scaled > PFC_MAX_DUTY =>
                         /\ pfcParam'.duty = PFC_MAX_DUTY
                         /\ pfcParam'.piCurrent.integralOut = KI_I_INTGRAL_OUT_MAX
                   /\ scaled <= PFC_MAX_DUTY =>
                         pfcParam'.piCurrent.integralOut = pi.integralOut
                   /\ scaled < PFC_MIN_DUTY => pfcParam'.duty = PFC_MIN_DUTY
                   /\ scaled \in PFC_MIN_DUTY..PFC_MAX_DUTY =>
                         pfcParam'.duty = scaled]_vars

\* the upper branch was taken and pulled the integral down to its limit
CurrentLoopDutyClampedWitness ==
    /\ lastCall = "PFC_CurrentControlLoop"
    /\ Asr(Mulss(pfcParam.piCurrent.output, PFC_LOOPTIME_TCY), 15) > PFC_MAX_DUTY
    /\ pfcParam.duty = PFC_MAX_DUTY
    /\ pfcParam.piCurrent.integralOut = KI_I_INTGRAL_OUT_MAX
    /\ pfcParam.piCurrent.output = INT16_MAX

\* the middle and the lower branch of the duty clamp
CurrentLoopMiddleBranch ==
    /\ lastCall = "PFC_CurrentControlLoop"
    /\ pfcParam.duty > PFC_MIN_DUTY
    /\ pfcParam.duty < PFC_MAX_DUTY

CurrentLoopLowerBranch ==
    /\ lastCall = "PFC_CurrentControlLoop"
    /\ pfcParam.duty = PFC_MIN_DUTY
    /\ pfcParam.piCurrent.output = 0

\* C11: PFC_Average fed a constant input V from sum = 0 and samples = 0,
\* with sampleLimit N: each of the first N - 1 calls leaves output and
\* status as they were, the N-th call leaves output = V, status = 1,
\* sum = 0 and samples = 0, and 0 <= samples < sampleLimit holds after
\* every call.
AverageWindow ==
    [][callCount'.avg # callCount.avg =>
          LET before == pfcParam.vacAVG
              after  == pfcParam'.vacAVG
              N      == before.sampleLimit
          IN  /\ 0 <= after.samples /\ after.samples < N
              /\ callCount'.avg < N =>
                    /\ after.output = before.output
                    /\ after.status = before.status
                    /\ after.status = 0
              /\ callCount'.avg = N =>
                    /\ after.output = pfcParam.pfcVoltage.vac
                    /\ after.status = 1
                    /\ after.sum = 0
                    /\ after.samples = 0]_vars

AverageWindowWitness ==
    /\ lastCall = "PFC_Average"
    /\ pfcParam.vacAVG.sampleLimit = 3
    /\ callCount.avg = 3
    /\ pfcParam.pfcVoltage.vac = -32768
    /\ pfcParam.vacAVG.output = -32768
    /\ pfcParam.vacAVG.status = 1

\* C12 as stated: PFC_SquaredRMSCalculate fed a constant input A from
\* sum = 0 and samples = 0, with sampleLimit N, has after its N-th call
\* sqrOutput = (A * A) >> 15, status = 1, sum = 0 and samples = 0, has
\* status = 0 before it, and keeps 0 <= samples < sampleLimit.
SquaredRMSWindow ==
    LET f == pfcParam.vacRMS
        A == pfcParam.rectifiedVac
    IN  /\ 0 <= f.samples /\ f.samples < f.sampleLimit
        /\ callCount.rms < f.sampleLimit => f.status = 0
        /\ callCount.rms = f.sampleLimit =>
              /\ f.sqrOutput = Asr(A * A, 15)
              /\ f.status = 1
              /\ f.sum = 0
              /\ f.samples = 0

\* C13 as stated: a status of 1 read by the state machine (vacAVG.status
\* in PFC_OFFSET_MEAS, vacRMS.status in PFC_WAIT_1CYCLE) means that the
\* filter completed a window in that very cycle (which leaves samples = 0).
StatusOneShot ==
    /\ cycleStart = PFC_OFFSET_MEAS /\ pfcParam.vacAVG.status = 1
          => pfcParam.vacAVG.samples = 0
    /\ cycleStart = PFC_WAIT_1CYCLE /\ pfcParam.vacRMS.status = 1
          => pfcParam.vacRMS.samples = 0

\* C13: the ready status is sticky.  It goes from 0 to 1 only in a call
\* that completes a window (leaving samples = 0) and then stays 1 after
\* every later call, completing or not; only PFC_ResetParams, in the
\* PFC_INIT cycle, clears vdcAVG.status and vacRMS.status, and nothing
\* clears vacAVG.status.
StatusSticky ==
    [][/\ pfcParam.vacAVG.status = 1 => pfcParam'.vacAVG.status = 1
       /\ pfcParam.state # PFC_INIT =>
             /\ pfcParam.vdcAVG.status = 1 => pfcParam'.vdcAVG.status = 1
             /\ pfcParam.vacRMS.status = 1 => pfcParam'.vacRMS.status = 1
       /\ pfcParam.vacAVG.status = 0 /\ pfcParam'.vacAVG.status = 1
             => pfcParam'.vacAVG.samples = 0
       /\ pfcParam.vdcAVG.status = 0 /\ pfcParam'.vdcAVG.status = 1
             => pfcParam'.vdcAVG.samples = 0
       /\ pfcParam.vacRMS.status = 0 /\ pfcParam'.vacRMS.status = 1
             => pfcParam'.vacRMS.samples = 0]_vars

\* the calibration reports ready in a cycle that completes no vacAVG window
StatusStickyWitness ==
    /\ cycleStart = PFC_OFFSET_MEAS
    /\ pfcParam.state = PFC_WAIT_1CYCLE
    /\ pfcParam.vacAVG.status = 1
    /\ pfcParam.vacAVG.samples # 0

\* the divides of one site that the last call executed
DividesAt(p, site) ==
    {i \in DOMAIN p.divides : p.divides[i].site = site}

\* C14: no divide runs with a zero or negative divisor.  The boost duty
\* ratio is recomputed in a no-fault PFC_CTRL_RUN cycle only when the Vdc
\* sample is positive, and is unchanged otherwise; the divide of
\* PFC_CurrentRefGenerate runs only when vacRMS.sqrOutput > 0; the divide
\* of PFC_CurrentSampleCorrection runs only when boostDutyRatio > 0; and
\* the three window lengths the filters divide by are positive.
DivisorsPositive ==
    [][LET p == pfcParam'
       IN  /\ \A i \in DOMAIN p.divides : p.divides[i].den > 0
           /\ \A i \in DividesAt(p, "boostDutyRatio") :
                 /\ p.divides[i].den = p.pfcVoltage.vdc
                 /\ pfcParam.state = PFC_CTRL_RUN /\ p.state = PFC_CTRL_RUN
           /\ (pfcParam.state = PFC_CTRL_RUN /\ p.state = PFC_CTRL_RUN
                  /\ lastCall' = "PFC_ADCInterrupt" /\ p.pfcVoltage.vdc > 0)
                 => DividesAt(p, "boostDutyRatio") # {}
           /\ DividesAt(p, "boostDutyRatio") = {}
                 => p.boostDutyRatio = pfcParam.boostDutyRatio
           /\ \A i \in DividesAt(p, "currentReference") :
                 p.divides[i].den = p.vacRMS.sqrOutput
           /\ \A i \in DividesAt(p, "averageCurrent") :
                 p.divides[i].den = pfcParam.boostDutyRatio
           /\ p.vdcAVG.sampleLimit > 0
           /\ p.vacAVG.sampleLimit > 0
           /\ p.vacRMS.sampleLimit > 0]_vars

\* a no-fault cycle with Vdc = 0 skipped the divide and kept the ratio of
\* an earlier cycle
DivisorsPositiveWitness ==
    /\ cycleStart = PFC_CTRL_RUN
    /\ pfcParam.state = PFC_CTRL_RUN
    /\ lastCall = "PFC_ADCInterrupt"
    /\ pfcParam.pfcVoltage.vdc = 0
    /\ pfcParam.boostDutyRatio # 0
    /\ DividesAt(pfcParam, "boostDutyRatio") = {}
    /\ DividesAt(pfcParam, "currentReference") # {}

\* C15 as stated: every fractional divide that runs has |numerator| <
\* divisor, so that its quotient is representable.
DividesFit ==
    \A i \in DOMAIN pfcParam.divides :
        DivfFits(pfcParam.divides[i].num, pfcParam.divides[i].den)

\* the transitions of the switch of PFC_StateMachine
Transitions ==
    {<<PFC_INIT, PFC_OFFSET_MEAS>>, <<PFC_OFFSET_MEAS, PFC_WAIT_1CYCLE>>,
     <<PFC_WAIT_1CYCLE, PFC_CTRL_RUN>>, <<PFC_CTRL_RUN, PFC_FAULT>>,
     <<PFC_FAULT, PFC_CTRL_RUN>>}

\* C16: in one cycle the state stays or takes one of the five transitions
\* INIT -> OFFSET_MEAS, OFFSET_MEAS -> WAIT_1CYCLE, WAIT_1CYCLE -> CTRL_RUN,
\* CTRL_RUN -> FAULT, FAULT -> CTRL_RUN; INIT lasts exactly one cycle; and
\* no cycle enters INIT, OFFSET_MEAS or WAIT_1CYCLE from a later state.
TransitionsForward ==
    [][/\ \/ pfcParam'.state = pfcParam.state
          \/ <<pfcParam.state, pfcParam'.state>> \in Transitions
       /\ pfcParam.state = PFC_INIT => pfcParam'.state = PFC_OFFSET_MEAS
       /\ pfcParam'.state \in StartupStates =>
             /\ pfcParam.state \in StartupStates
             /\ pfcParam.state <= pfcParam'.state
       /\ pfcParam'.state # PFC_INIT]_vars

\* a recovery, after a start-up that went through calibration and a
\* complete mean square window
TransitionsForwardWitness ==
    /\ cycleStart = PFC_FAULT
    /\ pfcParam.state = PFC_CTRL_RUN
    /\ pfcParam.pfcCurrent.status = 1
    /\ rmsWindow > pfcParam.vacRMS.sampleLimit

\* C17: in a cycle that calls PFC_CurrentRefGenerate (a no-fault
\* PFC_CTRL_RUN cycle) the voltage PI runs exactly when voltLoopExeRate >
\* VOLTAGE_LOOP_EXE_RATE on entry, and the counter is then 0; otherwise the
\* counter grows by 1 and ki, error, integralOut and output of piVoltage
\* are unchanged.  Every other cycle (start-up, fault detection, PFC_FAULT,
\* recovery) leaves the counter as it is, and the counter stays in
\* 0 .. VOLTAGE_LOOP_EXE_RATE + 1.
VoltageLoopDecimated ==
    [][LET p == pfcParam
           q == pfcParam'
           e == ToInt16(q.piVoltage.reference - q.vdcAVG.output)
       IN  /\ q.voltLoopExeRate \in 0 .. VOLTAGE_LOOP_EXE_RATE + 1
           /\ IF p.state = PFC_CTRL_RUN /\ q.state = PFC_CTRL_RUN
              THEN IF p.voltLoopExeRate > VOLTAGE_LOOP_EXE_RATE
                   THEN /\ q.voltLoopExeRate = 0
                        /\ q.piVoltage.error = e
                        /\ q.piVoltage.ki =
                              IF e > 700 \/ e < -700 THEN Asr(KI_V, 1) ELSE KI_V
                        /\ q.piVoltage =
                              PFC_PIController(
                                 [p.piVoltage EXCEPT
                                     !.reference = q.piVoltage.reference,
                                     !.error = e, !.ki = q.piVoltage.ki], e)
                   ELSE /\ q.voltLoopExeRate = p.voltLoopExeRate + 1
                        /\ q.piVoltage.ki = p.piVoltage.ki
                        /\ q.piVoltage.error = p.piVoltage.error
                        /\ q.piVoltage.integralOut = p.piVoltage.integralOut
                        /\ q.piVoltage.output = p.piVoltage.output
              ELSE q.voltLoopExeRate = p.voltLoopExeRate]_vars

\* a recovery that carries the counter at its top value into PFC_CTRL_RUN,
\* after the voltage PI has run
VoltageLoopDecimatedWitness ==
    /\ cycleStart = PFC_FAULT
    /\ pfcParam.state = PFC_CTRL_RUN
    /\ pfcParam.voltLoopExeRate = VOLTAGE_LOOP_EXE_RATE + 1
    /\ pfcParam.piVoltage.output > 0

\* C18: at the end of a no-fault PFC_CTRL_RUN cycle with piVoltage.output <
\* PFC_MIN_CURRENTREF_PEAK_Q15, duty and piCurrent.integralOut are 0
\* whatever PFC_CurrentControlLoop computed; otherwise everything is as
\* PFC_CurrentControlLoop left it.
LowReferenceOverrides ==
    [][\E ovf \in DivfOverflow :
          LET loop == PFC_CurrentControlLoop(
                         [pfcParam EXCEPT !.divides = << >>], ovf)
          IN  IF pfcParam.piVoltage.output < PFC_MIN_CURRENTREF_PEAK_Q15
              THEN /\ pfcParam'.duty = 0
                   /\ pfcParam'.piCurrent.integralOut = 0
                   /\ pfcParam' = [loop EXCEPT !.duty = 0,
                                               !.piCurrent.integralOut = 0]
              ELSE /\ pfcParam' = loop
                   /\ pfcParam'.duty \in PFC_MIN_DUTY .. PFC_MAX_DUTY]_vars

\* the cutoff overrode a duty that PFC_CurrentControlLoop had saturated
LowReferenceOverridesWitness ==
    /\ lastCall = "LowReferenceCutoff"
    /\ pfcParam.piVoltage.output = 99
    /\ Asr(Mulss(pfcParam.piCurrent.output, PFC_LOOPTIME_TCY), 15) > PFC_MAX_DUTY
    /\ pfcParam.duty = 0
    /\ pfcParam.piCurrent.integralOut = 0

\* C19: the cycle that moves PFC_WAIT_1CYCLE to PFC_CTRL_RUN comes only
\* after the mean square accumulator has completed a window all of whose
\* samples were taken after the PFC_INIT reset; until such a window is
\* complete vacRMS.status is 0.
FirstWindowAfterReset ==
    /\ (cycleStart = PFC_WAIT_1CYCLE /\ pfcParam.state = PFC_CTRL_RUN) =>
          /\ pfcParam.vacRMS.status = 1
          /\ rmsWindow > pfcParam.vacRMS.sampleLimit
    /\ (cycleStart \in StartupStates /\ pfcParam.vacRMS.status = 1) =>
          rmsWindow > pfcParam.vacRMS.sampleLimit
    /\ (cycleStart \in StartupStates
          /\ rmsWindow <= pfcParam.vacRMS.sampleLimit) =>
          /\ pfcParam.vacRMS.samples = rmsWindow
          /\ pfcParam.state # PFC_CTRL_RUN

FirstWindowAfterResetWitness ==
    /\ cycleStart = PFC_WAIT_1CYCLE
    /\ pfcParam.state = PFC_CTRL_RUN
    /\ rmsWindow = pfcParam.vacRMS.sampleLimit + 1
    /\ pfcParam.vacRMS.sqrOutput > 0

\* C20 as stated: the cycle that moves PFC_OFFSET_MEAS to PFC_WAIT_1CYCLE
\* has the calibration status and the AC average status at 1, and the
\* vdcAVG.output it copies into piVoltage.reference comes from a DC bus
\* window completed after the PFC_INIT reset (vdcAVG.status is 1), for
\* every pair of window lengths.
SeedFromCompletedWindow ==
    (cycleStart = PFC_OFFSET_MEAS /\ pfcParam.state = PFC_WAIT_1CYCLE) =>
        /\ pfcParam.pfcCurrent.status = 1
        /\ pfcParam.vacAVG.status = 1
        /\ pfcParam.vdcAVG.status = 1

\* C21 as stated: after every cycle the rectified sample handed to the
\* mean square accumulator is |vac - offsetVac| and is not negative, for
\* every pair of int16_t values of vac and offsetVac.
RectifiedIsMagnitude ==
    lastCall = "PFC_ADCInterrupt" =>
        /\ pfcParam.rectifiedVac >= 0
        /\ pfcParam.rectifiedVac =
              Abs(pfcParam.pfcVoltage.vac - pfcParam.pfcVoltage.offsetVac)

====
